---- MODULE Spec2Model ----
(***************************************************************************)
(* Model of proxy.js, an authenticated HTTP/HTTPS forward proxy on Node.   *)
(*                                                                         *)
(* Strings are sequences of one-character strings.  Every handler of       *)
(* proxy.js is one action (a JavaScript callback runs to completion); the  *)
(* stream plumbing that the handlers set up with pipe() is modelled by the *)
(* Pipe actions, one step per chunk.  An exception that escapes a handler  *)
(* has no catcher in proxy.js and ends the process (crashed).              *)
(***************************************************************************)
EXTENDS Integers, Sequences, FiniteSets, TLC

VARIABLES env, conn, crashed, slots

vars == <<env, conn, crashed, slots>>

(***************************************************************************)
(* Bounds of the model.                                                    *)
(***************************************************************************)
\* chunks a peer sends into one stream (tunnel direction, response body)
MaxData == 2
\* chunks of the CONNECT `head` buffer
MaxHead == 1

(***************************************************************************)
(* JavaScript values and string helpers.                                   *)
(***************************************************************************)
\* the value `undefined`; no string of the model equals it
Undefined == <<"undefined">>

\* !x of a string-or-undefined value
Falsy(s) == s = Undefined \/ s = <<>>

RECURSIVE SplitAcc(_, _, _)
SplitAcc(s, sep, cur) ==
    IF s = <<>> THEN <<cur>>
    ELSE IF Head(s) = sep THEN <<cur>> \o SplitAcc(Tail(s), sep, <<>>)
    ELSE SplitAcc(Tail(s), sep, Append(cur, Head(s)))

\* String.prototype.split(sep) for a one-character separator
Split(s, sep) == SplitAcc(s, sep, <<>>)

\* arr[i] of a JavaScript array, zero-based
At(arr, i) == IF i + 1 <= Len(arr) THEN arr[i + 1] ELSE Undefined

IsSpace(ch) == ch \in {" ", "\t"}

RECURSIVE TrimLeft(_)
TrimLeft(s) == IF s # <<>> /\ IsSpace(Head(s)) THEN TrimLeft(Tail(s)) ELSE s

RECURSIVE TrimRight(_)
TrimRight(s) ==
    IF s # <<>> /\ IsSpace(s[Len(s)]) THEN TrimRight(SubSeq(s, 1, Len(s) - 1)) ELSE s

\* String.prototype.trim
Trim(s) == TrimRight(TrimLeft(s))

\* String.prototype.toLowerCase on the letters the model uses
LowerCh(ch) ==
    CASE ch = "A" -> "a" [] ch = "B" -> "b" [] ch = "C" -> "c"
      [] ch = "H" -> "h" [] ch = "I" -> "i" [] ch = "P" -> "p"
      [] ch = "S" -> "s" [] ch = "T" -> "t"
      [] OTHER -> ch

Lower(s) == [i \in 1..Len(s) |-> LowerCh(s[i])]

StartsWith(s, p) == Len(s) >= Len(p) /\ SubSeq(s, 1, Len(p)) = p

Min(a, b) == IF a <= b THEN a ELSE b

Take(s, n) == SubSeq(s, 1, Min(n, Len(s)))

Drop(s, n) == SubSeq(s, Min(n, Len(s)) + 1, Len(s))

\* index of the first element of s in set cs, or Len(s)+1
RECURSIVE FirstIn(_, _, _)
FirstIn(s, cs, i) ==
    IF i > Len(s) THEN i ELSE IF s[i] \in cs THEN i ELSE FirstIn(s, cs, i + 1)

Digits == {"0", "1", "2", "3", "4", "5", "6", "7", "8", "9"}

DigitVal(ch) ==
    CASE ch = "0" -> 0 [] ch = "1" -> 1 [] ch = "2" -> 2 [] ch = "3" -> 3
      [] ch = "4" -> 4 [] ch = "5" -> 5 [] ch = "6" -> 6 [] ch = "7" -> 7
      [] ch = "8" -> 8 [] ch = "9" -> 9

\* the value NaN
NaN == -1000000

RECURSIVE DigitsValue(_, _)
DigitsValue(s, acc) ==
    IF s = <<>> \/ Head(s) \notin Digits THEN acc
    ELSE DigitsValue(Tail(s), 10 * acc + DigitVal(Head(s)))

\* parseInt(s, 10): leading white space, an optional sign, then the longest
\* run of digits; NaN when there is none (also for undefined)
parseInt(s) ==
    IF s = Undefined THEN NaN
    ELSE LET t == TrimLeft(s)
             neg == t # <<>> /\ Head(t) = "-"
             u == IF t # <<>> /\ Head(t) \in {"-", "+"} THEN Tail(t) ELSE t
         IN IF u = <<>> \/ Head(u) \notin Digits THEN NaN
            ELSE IF neg THEN 0 - DigitsValue(u, 0) ELSE DigitsValue(u, 0)

\* x || d for a number x: 0 and NaN are falsy
NumOr(x, d) == IF x = NaN \/ x = 0 THEN d ELSE x

(***************************************************************************)
(* Configuration, proxy.js lines 9-12.                                     *)
(***************************************************************************)
\* 'proxyuser' and 'proxypass', the defaults of lines 10 and 11
DefaultUser == <<"u">>
DefaultPass == <<"p">>

\* process.env as the model draws it: WHITELIST_HOSTS and PROXY_PASS
Envs ==
    { [WHITELIST_HOSTS |-> Undefined, PROXY_PASS |-> Undefined],
      [WHITELIST_HOSTS |-> <<" ", "a", " ", ",", "c", ",">>, PROXY_PASS |-> <<"p">>],
      [WHITELIST_HOSTS |-> <<"a">>, PROXY_PASS |-> <<"p", ":", "x">>],
      [WHITELIST_HOSTS |-> <<",", " ">>, PROXY_PASS |-> <<>>],
      [WHITELIST_HOSTS |-> <<"[">>, PROXY_PASS |-> Undefined] }

\* x || d for a string x
StrOr(x, d) == IF Falsy(x) THEN d ELSE x

PROXY_USER == DefaultUser
PROXY_PASS == StrOr(env.PROXY_PASS, DefaultPass)

\* .map(s => s.trim()).filter(Boolean)
RECURSIVE TrimFilter(_)
TrimFilter(arr) ==
    IF arr = <<>> THEN <<>>
    ELSE LET t == Trim(Head(arr))
         IN (IF t = <<>> THEN <<>> ELSE <<t>>) \o TrimFilter(Tail(arr))

WHITELIST == TrimFilter(Split(StrOr(env.WHITELIST_HOSTS, <<>>), ","))

(***************************************************************************)
(* checkBasicAuth, proxy.js lines 19-30.                                   *)
(***************************************************************************)
\* One token of a base64 text stands for the base64 of one character; the
\* tokens are named by it ("dQ" is the base64 of "u").  Any other character
\* is outside the base64 alphabet.
NotB64 == "invalid"

unbase64(t) ==
    CASE t = "dQ" -> "u" [] t = "cA" -> "p" [] t = "cQ" -> "q"
      [] t = "eA" -> "x" [] t = "Og" -> ":"
      [] OTHER -> NotB64

\* Buffer.from(text, 'base64').toString(): characters outside the alphabet
\* are skipped, nothing is thrown
RECURSIVE Base64Decode(_)
Base64Decode(text) ==
    IF text = <<>> THEN <<>>
    ELSE (IF unbase64(Head(text)) = NotB64 THEN <<>> ELSE <<unbase64(Head(text))>>)
         \o Base64Decode(Tail(text))

\* header.match(/^Basic\s+(.+)$/i): the group m[1], or Undefined for no
\* match.  \s+ is greedy and gives back white space only when nothing else
\* is left for (.+)
BasicMatch(header) ==
    IF ~StartsWith(Lower(header), <<"b", "a", "s", "i", "c">>) THEN Undefined
    ELSE LET rest == Drop(header, 5)
             body == TrimLeft(rest)
             nsp == Len(rest) - Len(body)
         IN IF nsp = 0 THEN Undefined
            ELSE IF body # <<>> THEN body
            ELSE IF nsp >= 2 THEN <<rest[Len(rest)]>>
            ELSE Undefined

checkBasicAuth(header) ==
    IF Falsy(header) THEN FALSE
    ELSE LET m == BasicMatch(header)
         IN IF m = Undefined THEN FALSE
            ELSE LET decoded == Base64Decode(m)
                     parts == Split(decoded, ":")
                     user == At(parts, 0)
                     pass == At(parts, 1)
                 IN user = PROXY_USER /\ pass = PROXY_PASS

(***************************************************************************)
(* hostAllowed, proxy.js lines 32-37.                                      *)
(***************************************************************************)
Includes(arr, x) == \E i \in 1..Len(arr) : arr[i] = x

\* hostAllowed without line 33
hostAllowed_NoEmptyCase(hostname) ==
    Includes(WHITELIST, At(Split(hostname, ":"), 0))

hostAllowed(hostname) ==
    IF Len(WHITELIST) = 0 THEN TRUE
    ELSE LET hostOnly == At(Split(hostname, ":"), 0)
         IN Includes(WHITELIST, hostOnly)

(***************************************************************************)
(* new url.URL(text) for the texts proxy.js hands it (lines 51 and 59):    *)
(* they start with http:// or https:// in any case.                        *)
(***************************************************************************)
\* code points the URL host parser refuses
ForbiddenHostChars == {" ", "%", "<", ">", "^", "|", "#", "?", "@"}

PORT_MAX == 65535

BadURL == [ok |-> FALSE, protocol |-> <<>>, hostname |-> <<>>, port |-> NaN]

\* the host and port of an authority; a literal IPv6 address keeps its brackets
ParseAuthority(protocol, auth) ==
    LET v6 == auth # <<>> /\ Head(auth) = "["
        close == FirstIn(auth, {"]"}, 1)
        hostEnd == IF v6 THEN close ELSE FirstIn(auth, {":"}, 1) - 1
        host == Take(auth, hostEnd)
        after == Drop(auth, hostEnd)
        portText == IF after = <<>> THEN <<>> ELSE Tail(after)
        portOk == /\ after = <<>> \/ Head(after) = ":"
                  /\ \A i \in 1..Len(portText) : portText[i] \in Digits
                  /\ DigitsValue(portText, 0) <= PORT_MAX
        hostOk == /\ host # <<>>
                  /\ \A i \in 1..Len(host) : host[i] \notin ForbiddenHostChars
                  /\ v6 => close <= Len(auth)
                  /\ ~v6 => \A i \in 1..Len(host) : host[i] \notin {"[", "]"}
    IN IF ~(hostOk /\ portOk) THEN BadURL
       ELSE [ok |-> TRUE, protocol |-> protocol, hostname |-> Lower(host),
             port |-> IF portText = <<>> THEN NaN ELSE DigitsValue(portText, 0)]

URL(text) ==
    LET colon == FirstIn(text, {":"}, 1)
        protocol == Lower(Take(text, colon))
        rest == Drop(text, colon)
        afterSlashes == IF StartsWith(rest, <<"/", "/">>) THEN Drop(rest, 2) ELSE rest
        authEnd == FirstIn(afterSlashes, {"/", "?", "#"}, 1) - 1
    IN ParseAuthority(protocol, Take(afterSlashes, authEnd))

\* /^https?:\/\//i.test(text)
IsAbsoluteHttp(text) ==
    \/ StartsWith(Lower(text), <<"h", "t", "t", "p", ":", "/", "/">>)
    \/ StartsWith(Lower(text), <<"h", "t", "t", "p", "s", ":", "/", "/">>)

(***************************************************************************)
(* Header objects: functions from lower-case names to values.              *)
(***************************************************************************)
NoHeaders == <<>>

Get(headers, name) == IF name \in DOMAIN headers THEN headers[name] ELSE Undefined

\* delete headers[name], for every name of the set
DeleteAll(headers, names) == [k \in DOMAIN headers \ names |-> headers[k]]

(***************************************************************************)
(* What travels on a connection.  A chunk is named by its sender and its   *)
(* position in that sender's stream, so that order, loss and duplication   *)
(* can be told; a status is something proxy.js itself wrote.               *)
(***************************************************************************)
Chunk(src, n) ==
    [src |-> src, n |-> n, code |-> 0, headers |-> NoHeaders, text |-> ""]

Status(code, headers, text) ==
    [src |-> "proxy", n |-> 0, code |-> code, headers |-> headers, text |-> text]

\* chunks lo..hi of one sender, in order
ChunkRun(src, lo, hi) == [i \in 1..(hi - lo + 1) |-> Chunk(src, lo + i - 1)]

(***************************************************************************)
(* The requests the clients send.                                          *)
(***************************************************************************)
BasicWord == <<"B", "a", "s", "i", "c">>
SchemeHttp == <<"h", "t", "t", "p", ":", "/", "/">>

\* Proxy-Authorization values; the base64 text is in tokens (see unbase64)
AuthGood == BasicWord \o <<" ", "dQ", "Og", "cA">>
AuthLowerCase == <<"b", "A", "s", "i", "c", " ", "\t", "dQ", "Og", "cA">>
AuthBearer == <<"B", "e", "a", "r", "e", "r", " ", "dQ", "Og", "cA">>
AuthNoSpace == BasicWord \o <<"dQ", "Og", "cA">>
AuthNoPayload == BasicWord \o <<" ">>
AuthWrongPass == BasicWord \o <<" ", "dQ", "Og", "cQ">>
AuthWrongUser == BasicWord \o <<" ", "cQ", "Og", "cA">>
AuthNoSeparator == BasicWord \o <<" ", "dQ", "cA">>
AuthColonPass == BasicWord \o <<" ", "dQ", "Og", "cA", "Og", "eA">>
AuthJunk == BasicWord \o <<" ", "dQ", "!", "Og", "cA">>

AuthValues ==
    { Undefined, <<>>, AuthGood, AuthLowerCase, AuthBearer, AuthNoSpace,
      AuthNoPayload, AuthWrongPass, AuthWrongUser, AuthNoSeparator,
      AuthColonPass, AuthJunk }

\* the values that are crossed with every target
AuthMain == {Undefined, AuthGood, AuthWrongPass, AuthColonPass}

\* request targets of standard requests: req.url and the Host header
HttpTargets ==
    { [url |-> SchemeHttp \o <<"a", "/">>, host |-> <<"a">>],
      [url |-> <<"H", "T", "T", "P", ":", "/", "/", "A", ":", "8", "/">>,
       host |-> Undefined],
      [url |-> SchemeHttp \o <<"b", "/">>, host |-> <<"a">>],
      [url |-> SchemeHttp \o <<"a", ":", "x", "/">>, host |-> <<"a">>],
      [url |-> SchemeHttp \o <<"[", ":", ":", "1", "]", "/">>, host |-> Undefined],
      [url |-> <<"h", "t", "t", "p", "s", ":", "/", "/", "a", "/">>, host |-> <<"a">>],
      [url |-> <<"/">>, host |-> <<"c", ":", "8">>],
      [url |-> <<"/">>, host |-> <<"b">>],
      [url |-> <<"/">>, host |-> <<"a", ":", "x">>],
      [url |-> <<"/">>, host |-> Undefined] }

HttpTargetsMain ==
    { t \in HttpTargets : t.url \in {SchemeHttp \o <<"a", "/">>, SchemeHttp \o <<"b", "/">>} }

\* other client headers
ExtraHeaders ==
    { NoHeaders,
      ("proxy-connection" :> "keep-alive") @@ ("connection" :> "close")
          @@ ("x-a" :> "1") }

MkHeaders(auth, host, extra) ==
    (IF auth = Undefined THEN NoHeaders ELSE ("proxy-authorization" :> auth))
    @@ (IF host = Undefined THEN NoHeaders ELSE ("host" :> host))
    @@ extra

MkReq(method, url, headers, head) ==
    [method |-> method, url |-> url, headers |-> headers, head |-> head]

NoReq == MkReq("", <<>>, NoHeaders, <<>>)

HttpRequests ==
    { MkReq("GET", t.url, MkHeaders(a, t.host, NoHeaders), <<>>) :
          a \in AuthMain, t \in HttpTargets }
    \cup { MkReq("GET", t.url, MkHeaders(a, t.host, NoHeaders), <<>>) :
          a \in AuthValues, t \in HttpTargetsMain }
    \cup { MkReq("POST", t.url, MkHeaders(AuthGood, t.host, x), <<>>) :
          t \in HttpTargetsMain, x \in ExtraHeaders }

\* CONNECT targets, host:port
ConnectUrls ==
    { <<"a", ":", "4", "4", "3">>, <<"a">>, <<"a", ":">>, <<"a", ":", "8">>,
      <<"a", ":", "x">>, <<"a", ":", "0">>, <<"a", ":", "8", "x">>,
      <<"a", ":", "9", "9", "9", "9", "9">>, <<"a", ":", "-", "8">>,
      <<"b", ":", "4", "4", "3">>, <<"A", ":", "4", "4", "3">>,
      <<"[", ":", ":", "1", "]", ":", "4", "4", "3">> }

ConnectUrlsMain == {<<"a", ":", "4", "4", "3">>, <<"b", ":", "4", "4", "3">>}

\* the bytes read past the CONNECT request head
Heads == {ChunkRun("head", 1, k) : k \in 0..MaxHead}

ConnectRequests ==
    { MkReq("CONNECT", u, MkHeaders(a, u, NoHeaders), <<>>) :
          a \in AuthMain, u \in ConnectUrls }
    \cup { MkReq("CONNECT", u, MkHeaders(a, u, NoHeaders), h) :
          a \in AuthValues, u \in ConnectUrlsMain, h \in Heads }

\* what an upstream answers to a standard request: status and headers
UpstreamResponses ==
    { [statusCode |-> 200, headers |-> ("content-type" :> "text/plain")],
      [statusCode |-> 404,
       headers |-> ("content-type" :> "text/plain") @@ ("transfer-encoding" :> "chunked")
           @@ ("connection" :> "keep-alive") @@ ("keep-alive" :> "timeout=5")],
      [statusCode |-> 200,
       headers |-> ("x-b" :> "2") @@ ("proxy-authenticate" :> "Basic")
           @@ ("proxy-authorization" :> "Basic") @@ ("te" :> "trailers")
           @@ ("trailer" :> "x-b") @@ ("upgrade" :> "h2c")] }

NoResponse == [statusCode |-> 0, headers |-> NoHeaders]

(***************************************************************************)
(* The state of one client connection.                                     *)
(*   kind     idle, request (standard exchange), connect (tunnel),         *)
(*            clientError                                                  *)
(*   steps    the checks the handler ran, in order                         *)
(*   out      what the proxy wrote to the client, in order                 *)
(*   client   the proxy's side of the client channel (res / clientSocket): *)
(*            open, ended (end() called), destroyed                        *)
(*   gone     the client disconnected: no, abort, reset                    *)
(*   up       the upstream connection (http.request / net.connect):        *)
(*            none, pending, open, halfclosed (end() called), closed       *)
(*   upIn     what the proxy wrote to the upstream, in order               *)
(*   c2s,s2c  the two streams: chunks sent by the peer, chunks read and    *)
(*            not yet written on (buf), end of stream seen (eof) and       *)
(*            handled (ended), pipe() in force (piped)                     *)
(***************************************************************************)
ConnIds == {1, 2}

IdleStream == [piped |-> FALSE, sent |-> 0, buf |-> <<>>, eof |-> FALSE, ended |-> FALSE]

NoUpReq == [method |-> "", headers |-> NoHeaders]

IdleConn ==
    [kind |-> "idle", req |-> NoReq, steps |-> <<>>, out |-> <<>>,
     headersSent |-> FALSE, client |-> "open", gone |-> "no",
     up |-> "none", upHost |-> <<>>, upPort |-> 0, upReq |-> NoUpReq,
     upRes |-> NoResponse, upError |-> "none", upIn |-> <<>>,
     c2s |-> IdleStream, s2c |-> IdleStream]

\* what a handler leaves behind: the part of the connection it sets
Outcome(steps, out, client, up, upHost, upPort, upReq, throws) ==
    [steps |-> steps, out |-> out, client |-> client, up |-> up,
     upHost |-> upHost, upPort |-> upPort, upReq |-> upReq, throws |-> throws]

Rejected(steps, status, client) ==
    Outcome(steps, <<status>>, client, "none", <<>>, 0, NoUpReq, FALSE)

Thrown(steps) == Outcome(steps, <<>>, "open", "none", <<>>, 0, NoUpReq, TRUE)

(***************************************************************************)
(* server.on('request'), proxy.js lines 41-96.                             *)
(***************************************************************************)
Challenge == "Proxy-Authenticate" :> "Basic realm=\"Proxy\""

\* lines 14-17
unauthorized == Status(407, Challenge, "Proxy authentication required")

\* the deletions without line 79
ProxyHeaders_NoConnection == {"proxy-authorization", "proxy-connection"}

\* lines 72-79: the options of the outgoing request
ProxyHeaders == {"proxy-authorization", "proxy-connection", "connection"}

options(req) ==
    [method |-> req.method, headers |-> DeleteAll(req.headers, ProxyHeaders)]

\* lines 81 and 95: http.request(target, options, ...) throws on a protocol
\* other than http:, which nothing catches; else the request is issued
RequestUpstream(req, target, steps) ==
    IF target.protocol # <<"h", "t", "t", "p", ":">>
    THEN Thrown(Append(steps, "upstream:throw"))
    ELSE Outcome(Append(steps, "upstream"), <<>>, "open", "pending",
                 target.hostname, NumOr(target.port, 80), options(req), FALSE)

\* lines 66-69
RequestAuthorize(req, target, steps) ==
    IF ~hostAllowed(target.hostname)
    THEN Rejected(Append(steps, "authz:fail"),
                  Status(403, NoHeaders, "Forbidden: host not allowed by proxy whitelist"),
                  "ended")
    ELSE RequestUpstream(req, target, Append(steps, "authz:ok"))

\* the resolution with the Host header consulted first
ResolveTarget_HostFirst(req) ==
    LET hostHeader == Get(req.headers, "host")
    IN IF ~Falsy(hostHeader)
       THEN URL(SchemeHttp \o hostHeader \o <<"/">>) @@ [why |-> "Bad Request: invalid URL"]
       ELSE IF IsAbsoluteHttp(req.url)
       THEN URL(req.url) @@ [why |-> "Bad Request: invalid URL"]
       ELSE BadURL @@ [why |-> "Bad Request: missing Host header"]

\* lines 48-60: the target of the request, or why there is none
ResolveTarget(req) ==
    IF IsAbsoluteHttp(req.url)
    THEN LET target == URL(req.url)
         IN target @@ [why |-> "Bad Request: invalid URL"]
    ELSE LET hostHeader == Get(req.headers, "host")
         IN IF Falsy(hostHeader)
            THEN BadURL @@ [why |-> "Bad Request: missing Host header"]
            ELSE URL(SchemeHttp \o hostHeader \o req.url)
                 @@ [why |-> "Bad Request: invalid URL"]

\* lines 48-64
RequestResolve(req, steps) ==
    LET target == ResolveTarget(req)
    IN IF ~target.ok
       THEN Rejected(Append(steps, "resolve:fail"),
                     Status(400, NoHeaders, target.why), "ended")
       ELSE RequestAuthorize(req, target, Append(steps, "resolve:ok"))

\* the handler with the return of line 44 lost
RequestHandler_NoReturn(req) ==
    LET proxyAuth == Get(req.headers, "proxy-authorization")
    IN RequestResolve(req, <<IF checkBasicAuth(proxyAuth) THEN "auth:ok" ELSE "auth:fail">>)

\* lines 43-44, then the rest of the handler
RequestHandler(req) ==
    LET proxyAuth == Get(req.headers, "proxy-authorization")
    IN IF ~checkBasicAuth(proxyAuth)
       THEN Rejected(<<"auth:fail">>, unauthorized, "ended")
       ELSE RequestResolve(req, <<"auth:ok">>)

(***************************************************************************)
(* server.on('connect'), proxy.js lines 99-131.                            *)
(***************************************************************************)
Line407 == Status(407, Challenge, "Proxy Authentication Required")
Line403 == Status(403, NoHeaders, "Forbidden")
Line200 == Status(200, NoHeaders, "Connection Established")
Line502 == Status(502, NoHeaders, "Bad Gateway")
Line400 == Status(400, NoHeaders, "Bad Request")

\* line 118: net.connect(port, host, ...) throws on a port outside 0..65535
ConnectUpstream(host, port, steps) ==
    IF port < 0 \/ port > PORT_MAX
    THEN Thrown(Append(steps, "upstream:throw"))
    ELSE Outcome(Append(steps, "upstream"), <<>>, "open", "pending",
                 host, port, NoUpReq, FALSE)

\* lines 109-116
ConnectAuthorize(req, steps) ==
    LET parts == Split(req.url, ":")
        host == At(parts, 0)
        portStr == At(parts, 1)
        port == NumOr(parseInt(portStr), 443)
    IN IF ~hostAllowed(host)
       THEN Rejected(Append(steps, "authz:fail"), Line403, "destroyed")
       ELSE ConnectUpstream(host, port, Append(steps, "authz:ok"))

\* lines 101-107, then the rest of the handler
ConnectHandler(req) ==
    LET proxyAuth == Get(req.headers, "proxy-authorization")
    IN IF ~checkBasicAuth(proxyAuth)
       THEN Rejected(<<"auth:fail">>, Line407, "destroyed")
       ELSE ConnectAuthorize(req, <<"auth:ok">>)

(***************************************************************************)
(* Actions.  A handler is one step; after an uncaught exception the        *)
(* process is gone and nothing more happens.                               *)
(***************************************************************************)
Live(c) == ~crashed /\ c \in slots

Set(c, new) == conn' = [conn EXCEPT ![c] = new]

Started(c, kind, req, r) ==
    [conn[c] EXCEPT !.kind = kind, !.req = req, !.steps = r.steps, !.out = r.out,
                    !.headersSent = r.out # <<>>, !.client = r.client,
                    !.up = r.up, !.upHost = r.upHost, !.upPort = r.upPort,
                    !.upReq = r.upReq]

\* a standard request arrives; line 95 pipes its body to the upstream
OnRequest(c) ==
    /\ Live(c) /\ conn[c].kind = "idle"
    /\ \E req \in HttpRequests :
          LET r == RequestHandler(req)
              started == Started(c, "request", req, r)
          IN /\ Set(c, [started EXCEPT !.c2s.piped = r.up = "pending"])
             /\ crashed' = r.throws
    /\ UNCHANGED <<env, slots>>

\* a CONNECT request arrives
OnConnect(c) ==
    /\ Live(c) /\ conn[c].kind = "idle"
    /\ \E req \in ConnectRequests :
          LET r == ConnectHandler(req)
          IN /\ Set(c, Started(c, "connect", req, r))
             /\ crashed' = r.throws
    /\ UNCHANGED <<env, slots>>

\* server.on('clientError'), lines 133-136: the request could not be parsed
OnClientError(c) ==
    /\ Live(c) /\ conn[c].kind = "idle"
    /\ Set(c, [conn[c] EXCEPT !.kind = "clientError", !.out = <<Line400>>,
                              !.client = "ended"])
    /\ UNCHANGED <<env, crashed, slots>>

\* the list of line 85 with its last name lost
HopByHop_NoUpgrade ==
    {"transfer-encoding", "connection", "keep-alive", "proxy-authenticate",
     "proxy-authorization", "te", "trailer"}

\* line 85
HopByHop ==
    {"transfer-encoding", "connection", "keep-alive", "proxy-authenticate",
     "proxy-authorization", "te", "trailer", "upgrade"}

\* res.write / clientSocket.write: lost when the channel is not open
WriteClient(k, item) == IF k.client = "open" THEN Append(k.out, item) ELSE k.out

\* the callback of http.request, lines 81-88; res.writeHead throws when the
\* head has been written already
OnUpstreamResponse(c) ==
    /\ Live(c) /\ conn[c].kind = "request" /\ conn[c].up = "pending"
    /\ \E upstreamRes \in UpstreamResponses :
          LET k == conn[c]
              headers == DeleteAll(upstreamRes.headers, HopByHop)
          IN IF k.headersSent
             THEN /\ Set(c, [k EXCEPT !.up = "open", !.upRes = upstreamRes])
                  /\ crashed' = TRUE
             ELSE /\ Set(c, [k EXCEPT !.up = "open", !.upRes = upstreamRes,
                                      !.headersSent = TRUE,
                                      !.out = WriteClient(k, Status(upstreamRes.statusCode, headers, "")),
                                      !.s2c.piped = k.client = "open"])
                  /\ crashed' = FALSE
    /\ UNCHANGED <<env, slots>>

\* upstream.on('error'), lines 90-93
OnUpstreamError(c) ==
    /\ Live(c) /\ conn[c].kind = "request" /\ conn[c].up \in {"pending", "open"}
    /\ ~conn[c].s2c.eof
    /\ LET k == conn[c]
       IN IF k.headersSent
          THEN /\ Set(c, [k EXCEPT !.up = "closed", !.upError = k.up,
                                   !.c2s.piped = FALSE, !.s2c.piped = FALSE])
               /\ crashed' = TRUE
          ELSE /\ Set(c, [k EXCEPT !.up = "closed", !.upError = k.up,
                                   !.headersSent = TRUE,
                                   !.out = WriteClient(k, Status(502, NoHeaders, "Bad Gateway")),
                                   !.client = IF k.client = "open" THEN "ended" ELSE k.client,
                                   !.c2s.piped = FALSE, !.s2c.piped = FALSE])
               /\ crashed' = FALSE
    /\ UNCHANGED <<env, slots>>

\* the callback without line 121
OnTunnelConnect_NoHead(c) ==
    /\ Live(c) /\ conn[c].kind = "connect" /\ conn[c].up = "pending"
    /\ Set(c, [conn[c] EXCEPT !.up = "open",
                              !.out = WriteClient(conn[c], Line200),
                              !.c2s.piped = TRUE, !.s2c.piped = TRUE])
    /\ UNCHANGED <<env, crashed, slots>>

\* the callback of net.connect, lines 118-124
OnTunnelConnect(c) ==
    /\ Live(c) /\ conn[c].kind = "connect" /\ conn[c].up = "pending"
    /\ LET k == conn[c]
           head == k.req.head
       IN Set(c, [k EXCEPT !.up = "open",
                           !.out = WriteClient(k, Line200),
                           !.upIn = IF Len(head) # 0 THEN k.upIn \o head ELSE k.upIn,
                           !.c2s.piped = TRUE, !.s2c.piped = TRUE])
    /\ UNCHANGED <<env, crashed, slots>>

\* the listener without its clientSocket.destroy()
serverSocketOnError_NoDestroy(k) == [k EXCEPT !.out = WriteClient(k, Line502)]

\* serverSocket.on('error'), lines 126-130: what the listener does to the
\* connection k
serverSocketOnError(k) ==
    [k EXCEPT !.out = WriteClient(k, Line502), !.client = "destroyed"]

\* the tunnel's upstream socket fails, while connecting or later
OnServerSocketError(c) ==
    /\ Live(c) /\ conn[c].kind = "connect"
    /\ conn[c].up \in {"pending", "open", "halfclosed"}
    /\ LET k == conn[c]
       IN Set(c, [serverSocketOnError(k) EXCEPT !.up = "closed", !.upError = k.up,
                                                !.c2s.piped = FALSE,
                                                !.s2c.piped = FALSE])
    /\ UNCHANGED <<env, crashed, slots>>

(***************************************************************************)
(* The streams that pipe() connects: req.pipe(upstream) (line 95),         *)
(* upstreamRes.pipe(res) (line 87), clientSocket.pipe(serverSocket) and    *)
(* serverSocket.pipe(clientSocket) (lines 122-123).  A chunk is read into  *)
(* the source's buffer and written on when the destination takes it; the   *)
(* end of the source ends the destination once the buffer is empty.        *)
(***************************************************************************)
\* the client sends a chunk: request body, or tunnel payload
ClientData(c) ==
    /\ Live(c) /\ conn[c].kind \in {"request", "connect"}
    /\ conn[c].up \in {"pending", "open"}
    /\ conn[c].gone = "no" /\ conn[c].client # "destroyed"
    /\ ~conn[c].c2s.eof /\ conn[c].c2s.sent < MaxData
    /\ LET n == conn[c].c2s.sent + 1
       IN Set(c, [conn[c] EXCEPT !.c2s.sent = n,
                                 !.c2s.buf = Append(@, Chunk("client", n))])
    /\ UNCHANGED <<env, crashed, slots>>

\* the client ends its stream: the request is complete, or the tunnel's
\* client half-closes (FIN)
ClientEnd(c) ==
    /\ Live(c) /\ conn[c].kind \in {"request", "connect"}
    /\ conn[c].up # "none"
    /\ conn[c].gone = "no" /\ conn[c].client # "destroyed"
    /\ ~conn[c].c2s.eof
    /\ Set(c, [conn[c] EXCEPT !.c2s.eof = TRUE])
    /\ UNCHANGED <<env, crashed, slots>>

\* pipe: one chunk from the client on to the upstream
PipeToUpstream(c) ==
    /\ Live(c) /\ conn[c].c2s.piped /\ conn[c].c2s.buf # <<>>
    /\ conn[c].up \in {"pending", "open"}
    /\ Set(c, [conn[c] EXCEPT !.upIn = Append(@, Head(conn[c].c2s.buf)),
                              !.c2s.buf = Tail(@)])
    /\ UNCHANGED <<env, crashed, slots>>

\* pipe: the client's stream ended, so upstream.end() / serverSocket.end().
\* A socket whose two directions are ended is destroyed.
PipeEndUpstream(c) ==
    /\ Live(c) /\ conn[c].c2s.eof /\ conn[c].c2s.buf = <<>> /\ ~conn[c].c2s.ended
    /\ conn[c].client # "destroyed"
    /\ conn[c].c2s.piped \/ (conn[c].kind = "connect" /\ conn[c].up = "closed")
    /\ LET k == conn[c]
       IN Set(c, [k EXCEPT !.c2s.ended = TRUE,
                           !.up = IF k.kind = "connect" /\ k.up = "open"
                                  THEN "halfclosed" ELSE k.up,
                           !.client = IF k.kind = "connect" /\ k.client = "ended"
                                      THEN "destroyed" ELSE k.client])
    /\ UNCHANGED <<env, crashed, slots>>

\* the upstream sends a chunk: response body, or tunnel payload
UpstreamData(c) ==
    /\ Live(c) /\ conn[c].up \in {"open", "halfclosed"}
    /\ ~conn[c].s2c.eof /\ conn[c].s2c.sent < MaxData
    /\ LET n == conn[c].s2c.sent + 1
       IN Set(c, [conn[c] EXCEPT !.s2c.sent = n,
                                 !.s2c.buf = Append(@, Chunk("upstream", n))])
    /\ UNCHANGED <<env, crashed, slots>>

\* the upstream ends its stream: the response is complete, or the tunnel's
\* destination closes (FIN)
UpstreamEnd(c) ==
    /\ Live(c) /\ conn[c].up \in {"open", "halfclosed"}
    /\ ~conn[c].s2c.eof
    /\ Set(c, [conn[c] EXCEPT !.s2c.eof = TRUE])
    /\ UNCHANGED <<env, crashed, slots>>

\* pipe: one chunk from the upstream on to the client
PipeToClient(c) ==
    /\ Live(c) /\ conn[c].s2c.piped /\ conn[c].s2c.buf # <<>>
    /\ conn[c].client = "open"
    /\ Set(c, [conn[c] EXCEPT !.out = Append(@, Head(conn[c].s2c.buf)),
                              !.s2c.buf = Tail(@)])
    /\ UNCHANGED <<env, crashed, slots>>

\* pipe: the upstream's stream ended, so res.end() / clientSocket.end().
\* The upstream connection is over: the agent drops the socket of a finished
\* response, and serverSocket (allowHalfOpen false) ends with its peer.
PipeEndClient(c) ==
    /\ Live(c) /\ conn[c].s2c.piped
    /\ conn[c].s2c.eof /\ conn[c].s2c.buf = <<>> /\ ~conn[c].s2c.ended
    /\ LET k == conn[c]
       IN Set(c, [k EXCEPT !.s2c.ended = TRUE, !.s2c.piped = FALSE,
                           !.c2s.piped = IF k.kind = "connect" THEN FALSE ELSE @,
                           !.up = "closed",
                           !.client = IF k.client # "open" THEN k.client
                                      ELSE IF k.kind = "connect" /\ k.c2s.ended
                                      THEN "destroyed" ELSE "ended"])
    /\ UNCHANGED <<env, crashed, slots>>

\* The upstream closed the connection of a finished response that nothing
\* reads any more (its pipe stopped when the client left): the http client
\* drops the socket.
UpstreamSocketEnd(c) ==
    /\ Live(c) /\ conn[c].kind = "request" /\ conn[c].up = "open"
    /\ conn[c].s2c.eof /\ ~conn[c].s2c.piped
    /\ Set(c, [conn[c] EXCEPT !.up = "closed"])
    /\ UNCHANGED <<env, crashed, slots>>

\* The client disconnects (close or reset) while its request is in flight.
\* In a standard exchange the server sees the socket close: req and res are
\* destroyed, the pipes stop, and no line of proxy.js runs for the upstream.
\* In a tunnel clientSocket emits 'error', for which proxy.js has no
\* listener: the exception ends the process.
ClientGone(c) ==
    /\ Live(c) /\ conn[c].kind \in {"request", "connect"}
    /\ conn[c].up \in {"pending", "open", "halfclosed"}
    /\ conn[c].gone = "no" /\ conn[c].client # "destroyed"
    /\ LET k == conn[c]
       IN /\ Set(c, [k EXCEPT !.gone = IF k.kind = "connect" THEN "reset" ELSE "abort",
                              !.client = "destroyed",
                              !.c2s.piped = FALSE, !.s2c.piped = FALSE])
          /\ crashed' = (k.kind = "connect")
    /\ UNCHANGED <<env, slots>>

(***************************************************************************)
(* The specifications.                                                     *)
(***************************************************************************)
InitWith(s) ==
    /\ env \in Envs
    /\ conn = [c \in ConnIds |-> IdleConn]
    /\ crashed = FALSE
    /\ slots = s

\* one client connection
Init == InitWith({1})

\* A tunnel to a:443 in Relaying: the client's chunks have gone upstream,
\* the last chunk of the upstream is read and waits to be written on.
RelayingTunnel ==
    [IdleConn EXCEPT
        !.kind = "connect",
        !.req = MkReq("CONNECT", <<"a", ":", "4", "4", "3">>,
                      MkHeaders(AuthGood, <<"a", ":", "4", "4", "3">>, NoHeaders), <<>>),
        !.steps = <<"auth:ok", "authz:ok", "upstream">>,
        !.out = <<Line200>> \o ChunkRun("upstream", 1, MaxData - 1),
        !.up = "open", !.upHost = <<"a">>, !.upPort = 443,
        !.upIn = ChunkRun("client", 1, MaxData),
        !.c2s = [piped |-> TRUE, sent |-> MaxData, buf |-> <<>>,
                 eof |-> FALSE, ended |-> FALSE],
        !.s2c = [piped |-> TRUE, sent |-> MaxData,
                 buf |-> <<Chunk("upstream", MaxData)>>,
                 eof |-> FALSE, ended |-> FALSE]]

MultiEnv == [WHITELIST_HOSTS |-> <<" ", "a", " ", ",", "c", ",">>, PROXY_PASS |-> <<"p">>]

\* two client connections at once: a new one beside a tunnel in Relaying
InitMulti ==
    /\ env = MultiEnv
    /\ conn = [c \in ConnIds |-> IF c = 1 THEN IdleConn ELSE RelayingTunnel]
    /\ crashed = FALSE
    /\ slots = ConnIds

\* the steps of proxy.js and of the streams it set up
ProxyStep(c) ==
    \/ PipeToUpstream(c)
    \/ PipeEndUpstream(c)
    \/ PipeToClient(c)
    \/ PipeEndClient(c)
    \/ UpstreamSocketEnd(c)

Next ==
    \E c \in ConnIds :
        \/ OnRequest(c)
        \/ OnConnect(c)
        \/ OnClientError(c)
        \/ OnUpstreamResponse(c)
        \/ OnUpstreamError(c)
        \/ OnTunnelConnect(c)
        \/ OnServerSocketError(c)
        \/ ClientData(c)
        \/ ClientEnd(c)
        \/ UpstreamData(c)
        \/ UpstreamEnd(c)
        \/ ClientGone(c)
        \/ ProxyStep(c)

Spec == Init /\ [][Next]_vars

SpecMulti == InitMulti /\ [][Next]_vars

\* the event loop runs every stream step that is ready
FairSpec == Spec /\ \A c \in ConnIds : WF_vars(ProxyStep(c))

(***************************************************************************)
(* Properties.                                                             *)
(***************************************************************************)
Elems(seq) == {seq[i] : i \in 1..Len(seq)}

\* a comes before b in the sequence
Before(seq, a, b) ==
    \E i, j \in 1..Len(seq) : i < j /\ seq[i] = a /\ seq[j] = b

ProxyAuthOf(k) == Get(k.req.headers, "proxy-authorization")

\* the proxy opened an upstream connection for k, or wrote to one
UpstreamTouched(k) ==
    \/ k.up # "none"
    \/ k.upIn # <<>>
    \/ "upstream" \in Elems(k.steps)

\* C1: in every reachable state, a connection for which an upstream
\* connection was opened, or on which a client byte went upstream, has
\* passed checkBasicAuth and then hostAllowed before that, for the host the
\* upstream connection goes to.
C1_UpstreamOnlyAfterBothChecks ==
    \A c \in ConnIds :
        UpstreamTouched(conn[c]) =>
            /\ checkBasicAuth(ProxyAuthOf(conn[c]))
            /\ hostAllowed(conn[c].upHost)
            /\ Before(conn[c].steps, "auth:ok", "authz:ok")
            /\ Before(conn[c].steps, "authz:ok", "upstream")

C1_Witness ==
    \E c \in ConnIds :
        /\ conn[c].kind = "connect" /\ Len(WHITELIST) > 0
        /\ conn[c].up = "open"
        /\ Chunk("client", 1) \in Elems(conn[c].upIn)

\* The Proxy-Authorization value carries the pair (user, pass): the Basic
\* scheme in any case, white space, then nothing but the base64 text of
\* user ":" pass (the password is all that follows the first colon).
PresentsPair(header, user, pass) ==
    /\ header # Undefined
    /\ StartsWith(Lower(header), <<"b", "a", "s", "i", "c">>)
    /\ LET rest == Drop(header, 5)
           text == TrimLeft(rest)
       IN /\ Len(text) < Len(rest)
          /\ text # <<>>
          /\ \A i \in 1..Len(text) : unbase64(text[i]) # NotB64
          /\ Base64Decode(text) = user \o <<":">> \o pass

CorrectCredentials(k) == PresentsPair(ProxyAuthOf(k), PROXY_USER, PROXY_PASS)

Handled(k) == k.kind \in {"request", "connect"}

\* where the request of k wants to go, as the handlers resolve it
Destination(k) ==
    IF k.kind = "connect"
    THEN [ok |-> TRUE, hostname |-> At(Split(k.req.url, ":"), 0)]
    ELSE LET t == ResolveTarget(k.req) IN [ok |-> t.ok, hostname |-> t.hostname]

StatusCodes(k) == {x.code : x \in {y \in Elems(k.out) : y.src = "proxy"}}

\* the one answer is 407 with the Basic challenge and no upstream was tried;
\* a CONNECT client's socket is closed
Only407(k) ==
    /\ Len(k.out) = 1
    /\ k.out[1].src = "proxy" /\ k.out[1].code = 407
    /\ k.out[1].headers = ("Proxy-Authenticate" :> "Basic realm=\"Proxy\"")
    /\ ~UpstreamTouched(k)
    /\ "upstream:throw" \notin Elems(k.steps)
    /\ k.kind = "connect" => k.client = "destroyed"

\* the one answer is 403 and no upstream was tried; a CONNECT client's
\* socket is closed
Only403(k) ==
    /\ Len(k.out) = 1
    /\ k.out[1].src = "proxy" /\ k.out[1].code = 403
    /\ ~UpstreamTouched(k)
    /\ "upstream:throw" \notin Elems(k.steps)
    /\ k.kind = "connect" => k.client = "destroyed"

\* C2: every standard or CONNECT request whose Proxy-Authorization is
\* absent, malformed or carries another pair than the configured one gets
\* 407 with the Basic challenge as its only answer, no upstream connection
\* is attempted, and a CONNECT client's socket is closed.
C2_BadCredentialsGet407 ==
    \A c \in ConnIds :
        (Handled(conn[c]) /\ ~CorrectCredentials(conn[c])) => Only407(conn[c])

\* What does hold: every request that checkBasicAuth rejects gets 407 only.
RejectedByAuthGets407 ==
    \A c \in ConnIds :
        (Handled(conn[c]) /\ ~checkBasicAuth(ProxyAuthOf(conn[c]))) => Only407(conn[c])

NotOnWhitelist(k) ==
    /\ Len(WHITELIST) > 0
    /\ Destination(k).ok
    /\ ~Includes(WHITELIST, Destination(k).hostname)

\* C3: every standard or CONNECT request with correct credentials whose
\* destination host is not a member of a non-empty allow-list gets 403, no
\* upstream connection is attempted, and a CONNECT client's socket is closed.
C3_ForbiddenHostGets403 ==
    \A c \in ConnIds :
        (Handled(conn[c]) /\ CorrectCredentials(conn[c]) /\ NotOnWhitelist(conn[c]))
            => Only403(conn[c])

\* What does hold: every request that checkBasicAuth accepts and whose host
\* hostAllowed rejects gets 403 only.
AcceptedByAuthForbiddenGets403 ==
    \A c \in ConnIds :
        (Handled(conn[c]) /\ checkBasicAuth(ProxyAuthOf(conn[c]))
            /\ Destination(conn[c]).ok
            /\ ~hostAllowed(Destination(conn[c]).hostname)) => Only403(conn[c])

\* the checks ran in the order authentication, authorization, upstream
ChecksInOrder(k) ==
    /\ k.steps # <<>> => k.steps[1] \in {"auth:ok", "auth:fail"}
    /\ \A i \in 1..Len(k.steps) :
          /\ k.steps[i] \in {"resolve:ok", "resolve:fail", "authz:ok", "authz:fail"}
                => k.steps[1] = "auth:ok"
          /\ k.steps[i] \in {"upstream", "upstream:throw"}
                => Before(SubSeq(k.steps, 1, i - 1), "auth:ok", "authz:ok")
    /\ UpstreamTouched(k) => "upstream" \in Elems(k.steps)

BadDestination(k) == ~Destination(k).ok \/ NotOnWhitelist(k)

\* C4: within one request the authentication check comes before the
\* destination check, which comes before any upstream I/O; a request with
\* bad credentials and a destination that is not allowed or cannot be parsed
\* is answered 407, never 403 or 400.
C4_AuthBeforeAuthzBeforeUpstream ==
    \A c \in ConnIds :
        /\ ChecksInOrder(conn[c])
        /\ (Handled(conn[c]) /\ ~CorrectCredentials(conn[c]) /\ BadDestination(conn[c]))
              => StatusCodes(conn[c]) = {407}

\* What does hold: the order of the checks, and 407 for every request that
\* checkBasicAuth rejects, whatever its destination.
OrderAndRejectedFirst ==
    \A c \in ConnIds :
        /\ ChecksInOrder(conn[c])
        /\ (Handled(conn[c]) /\ ~checkBasicAuth(ProxyAuthOf(conn[c]))
              /\ BadDestination(conn[c])) => StatusCodes(conn[c]) = {407}

\* RelayingTunnel is a state of the one-connection specification too
RelayingTunnelUnreached == ~(env = MultiEnv /\ conn[1] = RelayingTunnel)

\* C5: once the 200 line of a tunnel is written, the client gets exactly
\* that one line and then only the upstream's chunks, in order, and the
\* upstream gets only the head and the client's chunks, in order, whatever
\* the sockets do; the proxy adds nothing of its own.
C5_TunnelCarriesOnlyPeerBytes ==
    \A c \in ConnIds :
        (conn[c].kind = "connect" /\ Line200 \in Elems(conn[c].out)) =>
            /\ \E n \in 0..conn[c].s2c.sent :
                  conn[c].out = <<Line200>> \o ChunkRun("upstream", 1, n)
            /\ \E m \in 0..conn[c].c2s.sent :
                  conn[c].upIn = conn[c].req.head \o ChunkRun("client", 1, m)

\* What does hold: the same, but for a 502 line that ends the client's
\* stream when the upstream socket fails after the tunnel was set up.
TunnelCarriesPeerBytesAnd502 ==
    \A c \in ConnIds :
        (conn[c].kind = "connect" /\ Line200 \in Elems(conn[c].out)) =>
            /\ \E n \in 0..conn[c].s2c.sent :
                  \/ conn[c].out = <<Line200>> \o ChunkRun("upstream", 1, n)
                  \/ /\ conn[c].upError \in {"open", "halfclosed"}
                     /\ conn[c].out = <<Line200>> \o ChunkRun("upstream", 1, n) \o <<Line502>>
            /\ \E m \in 0..conn[c].c2s.sent :
                  conn[c].upIn = conn[c].req.head \o ChunkRun("client", 1, m)

\* C6: a CONNECT request that passed both checks and whose upstream
\* connection could not be set up gets the 502 line and no 200 line, and
\* its client socket is closed.
C6_ConnectErrorGets502 ==
    \A c \in ConnIds :
        (conn[c].kind = "connect" /\ conn[c].upError = "pending") =>
            /\ conn[c].out = <<Line502>>
            /\ conn[c].client = "destroyed"
            /\ conn[c].up = "closed"

C6_Witness ==
    \E c \in ConnIds :
        /\ conn[c].kind = "connect" /\ conn[c].upError = "pending"
        /\ conn[c].c2s.sent > 0
        /\ conn[c].out = <<Line502>>

\* C7: when the client's socket closes (end of stream or reset) while the
\* tunnel relays, the upstream socket is closed in the end.
C7_ClientCloseClosesUpstream ==
    \A c \in ConnIds :
        (/\ conn[c].kind = "connect"
         /\ conn[c].up \in {"open", "halfclosed"}
         /\ conn[c].c2s.eof \/ conn[c].gone # "no")
            ~> (conn[c].up = "closed" \/ crashed)

\* C8: when the client disconnects while a standard exchange is in flight,
\* the upstream request is closed or aborted in the end.
C8_ClientAbortClosesUpstream ==
    \A c \in ConnIds :
        (/\ conn[c].kind = "request"
         /\ conn[c].gone = "abort"
         /\ conn[c].up \in {"pending", "open"})
            ~> (conn[c].up = "closed" \/ crashed)

\* a failure happened on the connection
Failed(k) ==
    \/ k.gone # "no"
    \/ k.upError # "none"
    \/ "upstream:throw" \in Elems(k.steps)
    \/ \E code \in StatusCodes(k) : code >= 400

\* the connection has a chunk read and a destination ready to take it
ReadyToRelay(k) ==
    \/ k.s2c.piped /\ k.s2c.buf # <<>> /\ k.client = "open"
    \/ k.c2s.piped /\ k.c2s.buf # <<>> /\ k.up \in {"pending", "open"}

\* C9: no failure on one connection ends the process or changes what
\* happens on another connection: after a failure the process still runs
\* and every other connection with a chunk to relay can relay it.
C9_FailuresAreIsolated ==
    \A d \in ConnIds :
        Failed(conn[d]) =>
            /\ ~crashed
            /\ \A c \in ConnIds \ {d} : ReadyToRelay(conn[c]) => ENABLED ProxyStep(c)

\* the hop-by-hop names the response must not carry
C10_HopByHop ==
    {"transfer-encoding", "connection", "keep-alive", "proxy-authenticate",
     "proxy-authorization", "te", "trailer", "upgrade"}

\* C10: when the upstream's answer to a standard request has been relayed
\* to its end, the client has the upstream's status code, the upstream's
\* headers without the hop-by-hop names, and the upstream's body chunks, all
\* of them, in order.
C10_ResponseRelayedExactly ==
    \A c \in ConnIds :
        (conn[c].kind = "request" /\ conn[c].s2c.ended) =>
            /\ Len(conn[c].out) = 1 + conn[c].s2c.sent
            /\ conn[c].out[1].src = "proxy"
            /\ conn[c].out[1].code = conn[c].upRes.statusCode
            /\ conn[c].out[1].headers =
                  [h \in DOMAIN conn[c].upRes.headers \ C10_HopByHop |->
                      conn[c].upRes.headers[h]]
            /\ Drop(conn[c].out, 1) = ChunkRun("upstream", 1, conn[c].s2c.sent)
            /\ conn[c].client = "ended"

C10_Witness ==
    \E c \in ConnIds :
        /\ conn[c].kind = "request" /\ conn[c].s2c.ended
        /\ conn[c].s2c.sent = MaxData
        /\ "upgrade" \in DOMAIN conn[c].upRes.headers
        /\ "x-b" \in DOMAIN conn[c].out[1].headers

\* C11: with an empty allow-list the destination check succeeds for every
\* host: no request that passed authentication is answered 403, whatever
\* its destination, and the check is never recorded as failed.
C11_EmptyWhitelistAllowsAll ==
    Len(WHITELIST) = 0 =>
        \A c \in ConnIds :
            /\ Handled(conn[c]) /\ Destination(conn[c]).ok
                  => hostAllowed(Destination(conn[c]).hostname)
            /\ 403 \notin StatusCodes(conn[c])
            /\ "authz:fail" \notin Elems(conn[c].steps)

C11_Witness ==
    /\ Len(WHITELIST) = 0
    /\ env.WHITELIST_HOSTS # Undefined
    /\ \E c \in ConnIds :
          /\ conn[c].kind = "connect"
          /\ conn[c].upHost = <<"b">>
          /\ "authz:ok" \in Elems(conn[c].steps)
          /\ conn[c].up = "open"

\* how often the handler issued the upstream request
Count(seq, x) == Cardinality({i \in 1..Len(seq) : seq[i] = x})

\* C12: in a standard exchange every failure of the upstream request, before
\* the upstream's response started or in the middle of it, gets the client
\* the answer 502, and the upstream request is issued at most once.
C12_UpstreamFailureGets502 ==
    \A c \in ConnIds :
        conn[c].kind = "request" =>
            /\ (conn[c].upError # "none" /\ conn[c].gone = "no")
                  => 502 \in StatusCodes(conn[c])
            /\ Count(conn[c].steps, "upstream") <= 1

\* What does hold: 502 for a failure before the response started, and one
\* upstream request at most.
FailureBeforeResponseGets502 ==
    \A c \in ConnIds :
        conn[c].kind = "request" =>
            /\ (conn[c].upError = "pending" /\ conn[c].gone = "no")
                  => conn[c].out = <<Status(502, NoHeaders, "Bad Gateway")>>
            /\ Count(conn[c].steps, "upstream") <= 1

\* C13: when the upstream side of a relaying tunnel closes (end of stream or
\* error), the tunnel terminates: in the end the upstream socket and the
\* client socket are both closed.
C13_UpstreamCloseClosesTunnel ==
    \A c \in ConnIds :
        (/\ conn[c].kind = "connect"
         /\ Line200 \in Elems(conn[c].out)
         /\ conn[c].s2c.eof \/ conn[c].upError \in {"open", "halfclosed"})
            ~> (\/ conn[c].up = "closed" /\ conn[c].client = "destroyed"
                \/ crashed)

\* What does hold: the upstream's error closes both sockets at once, and
\* the upstream's end of stream closes the upstream socket in the end.
UpstreamErrorClosesTunnel ==
    \A c \in ConnIds :
        (conn[c].kind = "connect" /\ conn[c].upError # "none")
            => (conn[c].up = "closed" /\ conn[c].client = "destroyed")

UpstreamEndClosesUpstream ==
    \A c \in ConnIds :
        (conn[c].kind = "connect" /\ conn[c].s2c.eof /\ conn[c].s2c.piped)
            ~> (conn[c].up = "closed" \/ crashed)

\* C14: on a successful tunnel connect the bytes buffered past the CONNECT
\* request head go to the upstream once and before every client byte of the
\* pipe: the upstream has the head and then the client's chunks in the order
\* sent, none dropped (what is not yet written is still in the pipe's
\* buffer); the 200 line is written to the client before anything is
\* relayed, and nothing goes upstream before the connect succeeded.
C14_HeadFirstThenClientBytes ==
    \A c \in ConnIds :
        conn[c].kind = "connect" =>
            LET k == conn[c]
                written == k.c2s.sent - Len(k.c2s.buf)
            IN /\ k.c2s.buf = ChunkRun("client", written + 1, k.c2s.sent)
               /\ IF Line200 \in Elems(k.out)
                  THEN /\ k.out[1] = Line200
                       /\ k.upIn = k.req.head \o ChunkRun("client", 1, written)
                  ELSE /\ k.upIn = <<>>
                       /\ \A i \in 1..Len(k.out) : k.out[i].src = "proxy"

C14_Witness ==
    \E c \in ConnIds :
        /\ conn[c].kind = "connect"
        /\ Len(conn[c].req.head) = MaxHead
        /\ Line200 \in Elems(conn[c].out)
        /\ conn[c].upIn = conn[c].req.head \o ChunkRun("client", 1, MaxData)

\* the decoded credential cut at its first colon: <<user, password>>
SplitFirst(decoded) ==
    LET i == FirstIn(decoded, {":"}, 1)
    IN IF i > Len(decoded) THEN <<decoded, Undefined>>
       ELSE <<Take(decoded, i - 1), Drop(decoded, i)>>

\* the header is a Basic credential whose user is all before the first colon
\* and whose password is all after it, and both equal the configured pair
VerifiesByFirstColon(header) ==
    /\ ~Falsy(header)
    /\ BasicMatch(header) # Undefined
    /\ SplitFirst(Base64Decode(BasicMatch(header))) = <<PROXY_USER, PROXY_PASS>>

\* the verdict the handler reached for the request of k
Authenticated(k) == k.steps # <<>> /\ k.steps[1] = "auth:ok"

\* C15: the authenticator cuts the decoded credential at the first colon
\* only: for every configured pair, passwords with ':' included, the value
\* Basic base64(user:password) is accepted, and a value is accepted only when
\* both parts equal the configured pair.
C15_SplitOnFirstColon ==
    \A c \in ConnIds :
        Handled(conn[c]) =>
            (Authenticated(conn[c]) <=> VerifiesByFirstColon(ProxyAuthOf(conn[c])))

\* What does hold: the same when neither the configured password nor the
\* credential has a second colon.
FirstColonWhenNoSecondColon ==
    \A c \in ConnIds :
        (/\ Handled(conn[c])
         /\ ~Includes(PROXY_PASS, ":")
         /\ ~Falsy(ProxyAuthOf(conn[c]))
         /\ BasicMatch(ProxyAuthOf(conn[c])) # Undefined
               => Len(Split(Base64Decode(BasicMatch(ProxyAuthOf(conn[c]))), ":")) <= 2)
            => (Authenticated(conn[c]) <=> VerifiesByFirstColon(ProxyAuthOf(conn[c])))

\* the port segment of the CONNECT target of k, as line 109 cuts it
PortSegment(k) == At(Split(k.req.url, ":"), 1)

\* the segment is a decimal number
Numeric(seg) ==
    /\ seg # Undefined /\ seg # <<>>
    /\ \A i \in 1..Len(seg) : seg[i] \in Digits

\* the handler of k passed both checks
Authorized(k) == Authenticated(k) /\ "authz:ok" \in Elems(k.steps)

\* C16: for a CONNECT request that passed both checks the upstream
\* connection is opened, to exactly the port of a numeric port segment, and
\* to 443 when the segment is missing or not numeric.
C16_ConnectPort ==
    \A c \in ConnIds :
        (conn[c].kind = "connect" /\ Authorized(conn[c])) =>
            LET seg == PortSegment(conn[c])
            IN /\ "upstream" \in Elems(conn[c].steps)
               /\ conn[c].upPort =
                     IF Numeric(seg) THEN DigitsValue(seg, 0) ELSE 443

\* What does hold: exactly the port of a numeric segment from 1 to 65535,
\* and 443 for a segment that is missing or does not start with a digit.
ConnectPortInRange ==
    \A c \in ConnIds :
        (conn[c].kind = "connect" /\ Authorized(conn[c])) =>
            LET seg == PortSegment(conn[c])
            IN /\ (Numeric(seg) /\ DigitsValue(seg, 0) \in 1..PORT_MAX)
                     => /\ "upstream" \in Elems(conn[c].steps)
                        /\ conn[c].upPort = DigitsValue(seg, 0)
               /\ (seg = Undefined \/ seg = <<>> \/ Head(seg) \notin Digits \cup {"-", "+", " "})
                     => /\ "upstream" \in Elems(conn[c].steps)
                        /\ conn[c].upPort = 443

\* the request with another Host header (Undefined: none)
WithHost(req, h) ==
    [req EXCEPT !.headers =
        (IF h = Undefined THEN NoHeaders ELSE ("host" :> h))
        @@ [n \in DOMAIN req.headers \ {"host"} |-> req.headers[n]]]

\* Host headers to compare with
OtherHosts == {Undefined, <<"a">>, <<"b">>, <<"a", ":", "x">>}

\* C17: for a standard request that passed authentication: a target that is
\* not an absolute URL, with no Host header or with a Host that gives no
\* parseable URL, is answered 400 and no upstream is contacted; an absolute
\* http(s) URL is the destination by itself, whatever the Host header says.
C17_TargetResolution ==
    \A c \in ConnIds :
        (conn[c].kind = "request" /\ Authenticated(conn[c])) =>
            LET k == conn[c]
                hostHeader == Get(k.req.headers, "host")
            IN IF ~IsAbsoluteHttp(k.req.url)
               THEN (Falsy(hostHeader) \/ ~URL(SchemeHttp \o hostHeader \o k.req.url).ok)
                       => /\ StatusCodes(k) = {400}
                          /\ Len(k.out) = 1
                          /\ ~UpstreamTouched(k)
                          /\ "upstream:throw" \notin Elems(k.steps)
               ELSE /\ URL(k.req.url).ok =>
                          /\ "resolve:ok" \in Elems(k.steps)
                          /\ ("authz:ok" \in Elems(k.steps)) = hostAllowed(URL(k.req.url).hostname)
                          /\ UpstreamTouched(k) => k.upHost = URL(k.req.url).hostname
                    /\ \A h \in OtherHosts :
                          LET r == RequestHandler(WithHost(k.req, h))
                          IN /\ r.steps = k.steps
                             /\ r.upHost = k.upHost
                             /\ r.upPort = k.upPort

C17_Witness ==
    \E c \in ConnIds :
        /\ conn[c].kind = "request" /\ Authenticated(conn[c])
        /\ conn[c].req.url = SchemeHttp \o <<"b", "/">>
        /\ Get(conn[c].req.headers, "host") = <<"a">>
        /\ Includes(WHITELIST, <<"a">>)
        /\ StatusCodes(conn[c]) = {403}

\* the client headers the outbound request must not carry
C18_Removed == {"proxy-authorization", "proxy-connection", "connection"}

\* C18: the outbound request of a standard exchange has the client's method
\* and the client's headers without proxy-authorization, proxy-connection
\* and connection: none of the three goes upstream, every other header goes
\* upstream with its value unchanged.
C18_OutboundHeaders ==
    \A c \in ConnIds :
        (conn[c].kind = "request" /\ "upstream" \in Elems(conn[c].steps)) =>
            /\ conn[c].upReq.method = conn[c].req.method
            /\ DOMAIN conn[c].upReq.headers = DOMAIN conn[c].req.headers \ C18_Removed
            /\ \A h \in DOMAIN conn[c].upReq.headers :
                  conn[c].upReq.headers[h] = conn[c].req.headers[h]

C18_Witness ==
    \E c \in ConnIds :
        /\ conn[c].kind = "request" /\ conn[c].up = "open"
        /\ conn[c].req.method = "POST"
        /\ C18_Removed \subseteq DOMAIN conn[c].req.headers
        /\ "x-a" \in DOMAIN conn[c].upReq.headers
        /\ Chunk("client", 1) \in Elems(conn[c].upIn)

\* C19: the host an upstream connection is opened to is the host string
\* that was handed to the destination check and accepted by it
\* (target.hostname, or the CONNECT target before its first ':'); with a
\* non-empty allow-list it is a member of the allow-list.
C19_OpenedHostIsAllowedHost ==
    \A c \in ConnIds :
        "upstream" \in Elems(conn[c].steps) =>
            /\ conn[c].upHost = Destination(conn[c]).hostname
            /\ hostAllowed(conn[c].upHost)
            /\ Len(WHITELIST) > 0 => Includes(WHITELIST, conn[c].upHost)

\* What does hold: the host opened is the host checked, and its part before
\* the first ':' is a member of a non-empty allow-list.
OpenedHostIsCheckedHost ==
    \A c \in ConnIds :
        "upstream" \in Elems(conn[c].steps) =>
            /\ conn[c].upHost = Destination(conn[c]).hostname
            /\ hostAllowed(conn[c].upHost)
            /\ Len(WHITELIST) > 0
                  => Includes(WHITELIST, At(Split(conn[c].upHost, ":"), 0))

\* the status responses the proxy itself wrote on the connection
StatusWrites(k) == {i \in 1..Len(k.out) : k.out[i].src = "proxy"}

\* C20: over any interleaving of client and upstream events a request gets
\* one status response from the proxy at most: one response head in a
\* standard exchange, one of the lines 407, 403, 200, 502 in a tunnel.
C20_AtMostOneStatus ==
    \A c \in ConnIds : Cardinality(StatusWrites(conn[c])) <= 1

\* What does hold: one status at most, but for the 502 line that follows
\* the 200 line of a tunnel whose upstream socket failed later.
AtMostOneStatusOr200Then502 ==
    \A c \in ConnIds :
        \/ Cardinality(StatusWrites(conn[c])) <= 1
        \/ /\ conn[c].kind = "connect"
           /\ conn[c].upError \in {"open", "halfclosed"}
           /\ StatusCodes(conn[c]) = {200, 502}
           /\ Cardinality(StatusWrites(conn[c])) = 2
           /\ conn[c].out[1] = Line200
           /\ conn[c].out[Len(conn[c].out)] = Line502

====
